---- MODULE Spec2Model ----
(***************************************************************************)
(* Model of pacsam_optimization (src/src/lib.rs, src/src/main.rs): the     *)
(* route-inspection pipeline run = build_graph, fix_culdesacs, eulerize,   *)
(* and the functions dijkstra, find_cycle and length_miles.                *)
(*                                                                         *)
(* usize values are represented by their residue modulo the word size      *)
(* that lies nearest to zero: small numbers are themselves and usize::MAX  *)
(* is -1.  Wrapping addition is then integer addition, and the unsigned    *)
(* order and the overflow test are ULess and Overflows below.              *)
(*                                                                         *)
(* A graph is [n |-> node_count, adj |-> <<list of node 0, ...>>], each    *)
(* list a sequence of [target, value]: the adjacency lists of              *)
(* graph_builder's UndirectedALGraph in its default (unsorted) layout.     *)
(***************************************************************************)
EXTENDS Integers, Sequences, FiniteSets, TLC

\* ------------------------------------------------------------ bounds
\* the input file: lines, tokens in all, largest node index named by a token
MaxLines == 2
MaxTokens == 2
MaxNode == 3
\* the graphs handed to dijkstra and find_cycle: largest node index, edges
MaxFnNode == 2
MaxEdges == 2

\* usize::MAX, as the residue -1
USIZE_MAX == -1

\* ------------------------------------------------------------ usize
Overflows(a, b) ==
    \/ a < 0 /\ b < 0
    \/ a < 0 /\ b >= 0 /\ a + b >= 0
    \/ b < 0 /\ a >= 0 /\ a + b >= 0

ULess(a, b) == IF (a >= 0) = (b >= 0) THEN a < b ELSE b < 0

\* ------------------------------------------------------------ text
DigitChars == <<"0", "1", "2", "3", "4", "5", "6", "7", "8", "9">>

DigitVal(c) == (CHOOSE i \in 1..10 : DigitChars[i] = c) - 1

IsDigit(c) == \E i \in 1..10 : DigitChars[i] = c

RECURSIVE SplitFrom(_, _, _, _)
SplitFrom(s, sep, i, cur) ==
    IF i > Len(s) THEN <<cur>>
    ELSE IF s[i] = sep THEN <<cur>> \o SplitFrom(s, sep, i + 1, <<>>)
    ELSE SplitFrom(s, sep, i + 1, Append(cur, s[i]))

\* str::split(sep): the pieces between separators; the empty string gives one
\* empty piece
split(s, sep) == SplitFrom(s, sep, 1, <<>>)

\* str::lines(): the pieces between "\n", without a final empty piece. A
\* piece ended by "\n" loses one "\r" before that "\n" (the line ending
\* "\r\n"); the last piece, which no "\n" ends, keeps a trailing "\r"
lines(s) ==
    LET p == split(s, "\n")
        q == IF p[Len(p)] = <<>> THEN SubSeq(p, 1, Len(p) - 1) ELSE p
        strip(l) == IF Len(l) > 0 /\ l[Len(l)] = "\r"
                    THEN SubSeq(l, 1, Len(l) - 1) ELSE l
    IN  [i \in 1..Len(q) |-> IF i < Len(p) THEN strip(q[i]) ELSE q[i]]

RECURSIVE DecimalValue(_)
DecimalValue(ds) ==
    IF Len(ds) = 0 THEN 0
    ELSE 10 * DecimalValue(SubSeq(ds, 1, Len(ds) - 1)) + DigitVal(ds[Len(ds)])

\* str::parse::<usize>(): an optional "+", then one or more decimal digits
\* (numerals of the inputs drawn here never exceed usize::MAX)
parse_usize(f) ==
    LET body == IF Len(f) > 0 /\ f[1] = "+" THEN Tail(f) ELSE f
    IN  IF Len(body) = 0 \/ (\E i \in 1..Len(body) : ~IsDigit(body[i]))
        THEN [ok |-> FALSE, val |-> 0]
        ELSE [ok |-> TRUE, val |-> DecimalValue(body)]

\* ------------------------------------------------------------ graph
NoGraph == [n |-> 0, adj |-> <<>>]

node_count(g) == g.n

degree(g, node) == Len(g.adj[node + 1])

neighbors_with_values(g, node) == g.adj[node + 1]

\* add_edge_with_value: push (target, value) on source's list, then
\* (source, value) on target's list
add_edge_with_value(g, source, target, value) ==
    LET a1 == [g.adj EXCEPT ![source + 1] =
                   Append(@, [target |-> target, value |-> value])]
        a2 == [a1 EXCEPT ![target + 1] =
                   Append(@, [target |-> source, value |-> value])]
    IN  [g EXCEPT !.adj = a2]

Max2(a, b) == IF a >= b THEN a ELSE b

RECURSIVE MaxNodeId(_)
MaxNodeId(es) ==
    IF Len(es) = 0 THEN 0
    ELSE Max2(Max2(es[1][1], es[1][2]), MaxNodeId(Tail(es)))

\* the entries edge list es puts on node's list, in edge-list order
RECURSIVE IncidentEntries(_, _)
IncidentEntries(es, node) ==
    IF Len(es) = 0 THEN <<>>
    ELSE LET e == es[1]
             out == IF e[1] = node
                    THEN <<[target |-> e[2], value |-> e[3]]>> ELSE <<>>
             inc == IF e[2] = node
                    THEN <<[target |-> e[1], value |-> e[3]]>> ELSE <<>>
         IN  out \o inc \o IncidentEntries(Tail(es), node)

\* the distinct orders in which the entries of s can stand
RECURSIVE Orderings(_)
Orderings(s) ==
    IF Len(s) = 0 THEN {<<>>}
    ELSE UNION {{<<s[i]>> \o t :
                    t \in Orderings(SubSeq(s, 1, i - 1)
                                    \o SubSeq(s, i + 1, Len(s)))} :
                i \in {i \in 1..Len(s) : \A j \in 1..(i - 1) : s[j] /= s[i]}}

RECURSIVE AdjChoices(_, _, _)
AdjChoices(es, k, n) ==
    IF k >= n THEN {<<>>}
    ELSE {<<h>> \o t : h \in Orderings(IncidentEntries(es, k)),
                       t \in AdjChoices(es, k + 1, n)}

\* GraphBuilder::new().edges_with_values(es).build(): node_count is the largest
\* node id plus one; the edges are pushed onto the per-node lists by a parallel
\* iterator, so each list holds its entries in some order
BuiltGraphs(es) ==
    LET n == MaxNodeId(es) + 1
    IN  {[n |-> n, adj |-> a] : a \in AdjChoices(es, 0, n)}

\* ------------------------------------------------------------ build_graph
\* one token of a line: skipped without ":", a panic when a field does not
\* parse, an edge otherwise
TokenParse(tok) ==
    LET vertex_and_weight == split(tok, ":")
    IN  IF Len(vertex_and_weight) = 1 THEN [kind |-> "skip"]
        ELSE LET vertex == parse_usize(vertex_and_weight[1])
                 weight == parse_usize(vertex_and_weight[2])
             IN  IF ~vertex.ok \/ ~weight.ok THEN [kind |-> "panic"]
                 ELSE [kind |-> "edge", vertex |-> vertex.val,
                       weight |-> weight.val]

RECURSIVE LineEdges(_, _)
LineEdges(toks, line_counter) ==
    IF Len(toks) = 0 THEN [panic |-> FALSE, edges |-> <<>>]
    ELSE LET t == TokenParse(toks[1])
         IN  IF t.kind = "panic" THEN [panic |-> TRUE, edges |-> <<>>]
             ELSE LET rest == LineEdges(Tail(toks), line_counter)
                      here == IF t.kind = "edge"
                              THEN <<<<line_counter, t.vertex, t.weight>>>>
                              ELSE <<>>
                  IN  IF rest.panic THEN [panic |-> TRUE, edges |-> <<>>]
                      ELSE [panic |-> FALSE, edges |-> here \o rest.edges]

RECURSIVE TextEdges(_, _)
TextEdges(ls, line_counter) ==
    IF Len(ls) = 0 THEN [panic |-> FALSE, edges |-> <<>>]
    ELSE LET l == LineEdges(split(ls[1], ","), line_counter)
         IN  IF l.panic THEN [panic |-> TRUE, edges |-> <<>>]
             ELSE LET rest == TextEdges(Tail(ls), line_counter + 1)
                  IN  IF rest.panic THEN [panic |-> TRUE, edges |-> <<>>]
                      ELSE [panic |-> FALSE,
                            edges |-> l.edges \o rest.edges]

\* a parser whose line counter counts only the lines that are not empty
build_edges_counting_filled_lines(text) ==
    TextEdges(SelectSeq(lines(text), LAMBDA l : Len(l) > 0), 0)

\* the edges vector of build_graph, or the panic of an unwrap (the vector is
\* dropped with the panic)
build_edges(text) == TextEdges(lines(text), 0)

\* ------------------------------------------------------------ fix_culdesacs
NodeSeq(g) == [i \in 1..node_count(g) |-> i - 1]

nodes_with_degree_one(g) ==
    SelectSeq(NodeSeq(g), LAMBDA i : degree(g, i) = 1)

nodes_with_odd_degree(g) ==
    SelectSeq(NodeSeq(g), LAMBDA i : degree(g, i) % 2 /= 0)

\* the loop of fix_culdesacs: each listed node gets a copy of the edge to the
\* first neighbour its list holds at that moment
RECURSIVE DuplicateFirstEdges(_, _)
DuplicateFirstEdges(g, nodes) ==
    IF Len(nodes) = 0 THEN g
    ELSE LET node == nodes[1]
             neighbor == neighbors_with_values(g, node)[1]
         IN  DuplicateFirstEdges(
                 add_edge_with_value(g, node, neighbor.target, neighbor.value),
                 Tail(nodes))

fix_culdesacs(g) == DuplicateFirstEdges(g, nodes_with_degree_one(g))

\* ------------------------------------------------------------ dijkstra
Vertex(idx, d) == [idx |-> idx, distance_from_u |-> d]

\* iter().position(|u| u.idx == idx), 1-based; 0 when absent
PositionOf(vs, idx) ==
    IF \E i \in 1..Len(vs) : vs[i].idx = idx
    THEN CHOOSE i \in 1..Len(vs) :
             vs[i].idx = idx /\ \A j \in 1..(i - 1) : vs[j].idx /= idx
    ELSE 0

\* a removal that takes the last element whatever the index (Vec::pop)
swap_remove_pops(s, i) == SubSeq(s, 1, Len(s) - 1)

\* Vec::swap_remove(i): the last element takes the place of the removed one
swap_remove(s, i) ==
    IF i = Len(s) THEN SubSeq(s, 1, Len(s) - 1)
    ELSE [SubSeq(s, 1, Len(s) - 1) EXCEPT ![i] = s[Len(s)]]

\* iter().min() under Vertex's Ord (distance only): the first least element
MinPosition(vs) ==
    CHOOSE i \in 1..Len(vs) :
        /\ \A j \in 1..Len(vs) :
               ~ULess(vs[j].distance_from_u, vs[i].distance_from_u)
        /\ \A j \in 1..(i - 1) :
               ULess(vs[i].distance_from_u, vs[j].distance_from_u)

\* the relaxation loop over current's neighbours; with overflow checks the
\* addition panics when it overflows, without them it wraps
RECURSIVE Relax(_, _, _, _)
Relax(unvisited, nbrs, cumulative_dist, checks) ==
    IF Len(nbrs) = 0 THEN [panic |-> FALSE, unvisited |-> unvisited]
    ELSE LET neighbor == nbrs[1]
             p == PositionOf(unvisited, neighbor.target)
         IN  IF p = 0
             THEN Relax(unvisited, Tail(nbrs), cumulative_dist, checks)
             ELSE IF checks /\ Overflows(neighbor.value, cumulative_dist)
             THEN [panic |-> TRUE, unvisited |-> unvisited]
             ELSE LET cand == neighbor.value + cumulative_dist
                      u2 == IF ULess(cand, unvisited[p].distance_from_u)
                            THEN [unvisited EXCEPT ![p].distance_from_u = cand]
                            ELSE unvisited
                  IN  Relax(u2, Tail(nbrs), cumulative_dist, checks)

RECURSIVE DijkstraLoop(_, _, _, _, _)
DijkstraLoop(g, unvisited, sp_tree, current, checks) ==
    IF Len(unvisited) = 0 THEN [panic |-> FALSE, sp_tree |-> sp_tree]
    ELSE LET cumulative_dist ==
                 unvisited[PositionOf(unvisited, current)].distance_from_u
             r == Relax(unvisited, neighbors_with_values(g, current),
                        cumulative_dist, checks)
         IN  IF r.panic THEN [panic |-> TRUE, sp_tree |-> <<>>]
             ELSE LET rm_idx == PositionOf(r.unvisited, current)
                      tree2 == Append(sp_tree, r.unvisited[rm_idx])
                      u2 == swap_remove(r.unvisited, rm_idx)
                      next == IF Len(u2) = 0 THEN current
                              ELSE u2[MinPosition(u2)].idx
                  IN  DijkstraLoop(g, u2, tree2, next, checks)

dijkstra(g, initial, checks) ==
    LET unvisited == [i \in 1..node_count(g) |->
                         Vertex(i - 1, IF i - 1 = initial THEN 0 ELSE USIZE_MAX)]
    IN  DijkstraLoop(g, unvisited, <<>>, initial, checks)

\* ------------------------------------------------------------ eulerize
Contains(s, x) == \E i \in 1..Len(s) : s[i] = x

RECURSIVE TrimTree(_, _)
TrimTree(tree, odd) ==
    IF Len(tree) = 0 THEN <<>>
    ELSE (IF Contains(odd, tree[1].idx) THEN <<tree[1]>> ELSE <<>>)
         \o TrimTree(Tail(tree), odd)

IndexOf(s, x) == (CHOOSE i \in 1..Len(s) : s[i] = x) - 1

\* the inner loop of lines 120-131 for the tree of odd node number new_i
RECURSIVE TreeEdges(_, _, _, _)
TreeEdges(new_edges, tree, new_i, odd) ==
    IF Len(tree) = 0 THEN new_edges
    ELSE LET vertex == tree[1]
         IN  IF odd[new_i + 1] = vertex.idx
             THEN TreeEdges(new_edges, Tail(tree), new_i, odd)
             ELSE LET new_j == IndexOf(odd, vertex.idx)
                      e2 == IF ~Contains(new_edges,
                                   <<new_j, new_i, vertex.distance_from_u>>)
                            THEN Append(new_edges,
                                   <<new_i, new_j, vertex.distance_from_u>>)
                            ELSE new_edges
                  IN  TreeEdges(e2, Tail(tree), new_i, odd)

RECURSIVE AllTreeEdges(_, _, _, _)
AllTreeEdges(new_edges, trees, new_i, odd) ==
    IF new_i >= Len(trees) THEN new_edges
    ELSE AllTreeEdges(TreeEdges(new_edges, trees[new_i + 1], new_i, odd),
                      trees, new_i + 1, odd)

\* eulerize up to the construction of graph2: the odd nodes, their trees and
\* the edge list new_edges; the graph passed in is not written to
eulerize(g, checks) ==
    LET odd == nodes_with_odd_degree(g)
        shortest_path_trees ==
            [k \in 1..Len(odd) |-> dijkstra(g, odd[k], checks)]
    IN  IF Len(odd) = 0
        THEN [panic |-> FALSE, odd |-> odd, trees |-> <<>>, new_edges |-> <<>>]
        ELSE IF \E k \in 1..Len(odd) : shortest_path_trees[k].panic
        THEN [panic |-> TRUE, odd |-> odd, trees |-> <<>>, new_edges |-> <<>>]
        ELSE LET trees == [k \in 1..Len(odd) |-> shortest_path_trees[k].sp_tree]
                 trimmed_sp_trees ==
                     [k \in 1..Len(odd) |-> TrimTree(trees[k], odd)]
             IN  [panic |-> FALSE, odd |-> odd, trees |-> trees,
                  new_edges |-> AllTreeEdges(<<>>, trimmed_sp_trees, 0, odd)]

\* ------------------------------------------------------------ find_cycle
RECURSIVE NeighborEdges(_, _, _)
NeighborEdges(acc, nbrs, i) ==
    IF Len(nbrs) = 0 THEN acc
    ELSE NeighborEdges(
             IF ~Contains(acc, <<nbrs[1].target, i>>)
             THEN Append(acc, <<i, nbrs[1].target>>) ELSE acc,
             Tail(nbrs), i)

RECURSIVE CollectEdges(_, _, _)
CollectEdges(acc, g, i) ==
    IF i >= node_count(g) THEN acc
    ELSE CollectEdges(NeighborEdges(acc, neighbors_with_values(g, i), i),
                      g, i + 1)

\* lines 202-209: the working edge list of find_cycle
cycle_edges(g) == CollectEdges(<<>>, g, 0)

Touches(e, v) == e[1] = v \/ e[2] = v

\* rm_idx of lines 215-226: the first edge equal to the first edge at v1
FirstAt(es, v1) ==
    CHOOSE i \in 1..Len(es) :
        Touches(es[i], v1) /\ \A j \in 1..(i - 1) : ~Touches(es[j], v1)

\* ------------------------------------------------------------ length_miles
\* feet totals below 21648 for which trunc(ft / 5280.0 * 100.0), computed in
\* f64, falls one short of the exact quotient
F64ShortFeet == {6072, 10824, 12144, 13464}

RECURSIVE PathFeet(_, _, _)
PathFeet(path, g, count) ==
    IF count >= Len(path) THEN [panic |-> FALSE, ft |-> 0]
    ELSE LET v1 == path[count]
             v2 == path[count + 1]
             nb == neighbors_with_values(g, v1)
         IN  IF ~\E i \in 1..Len(nb) : nb[i].target = v2
             THEN [panic |-> TRUE, ft |-> 0]
             ELSE LET edge == nb[CHOOSE i \in 1..Len(nb) :
                                  /\ nb[i].target = v2
                                  /\ \A j \in 1..(i - 1) : nb[j].target /= v2]
                      rest == PathFeet(path, g, count + 1)
                  IN  [panic |-> rest.panic, ft |-> edge.value + rest.ft]

\* length_miles, the f64 it returns given in hundredths of a mile; an empty
\* path fails at path.len() - 1 or at path[0]
length_miles(path, g) ==
    IF Len(path) = 0 THEN [panic |-> TRUE, hundredths |-> 0]
    ELSE LET s == PathFeet(path, g, 1)
         IN  IF s.panic THEN [panic |-> TRUE, hundredths |-> 0]
             ELSE [panic |-> FALSE,
                   hundredths |-> ((s.ft * 100) \div 5280)
                                  - (IF s.ft \in F64ShortFeet THEN 1 ELSE 0)]

\* ------------------------------------------------------------ inputs
RECURSIVE FormatUsize(_)
FormatUsize(n) ==
    IF n < 10 THEN <<DigitChars[n + 1]>>
    ELSE FormatUsize(n \div 10) \o <<DigitChars[(n % 10) + 1]>>

\* the tokens an input line is made of: "j:w" for an edge to node j of weight
\* w, a token without ":", and tokens with a field that is no number
TokenPool ==
    {[kind |-> "edge", j |-> j, w |-> 1,
      text |-> FormatUsize(j) \o <<":">> \o FormatUsize(1)] : j \in 0..MaxNode}
    \cup {[kind |-> "edge", j |-> 1, w |-> 10,
           text |-> FormatUsize(1) \o <<":">> \o FormatUsize(10)],
          [kind |-> "plain", j |-> 0, w |-> 0, text |-> <<"x">>],
          [kind |-> "bad", j |-> 0, w |-> 0, text |-> <<"1", ":", "x">>],
          [kind |-> "bad", j |-> 0, w |-> 0, text |-> <<":", "1">>]}

RECURSIVE SrcLines(_, _)
SrcLines(nl, budget) ==
    IF nl = 0 THEN {<<>>}
    ELSE UNION {{<<l>> \o rest : l \in [1..m -> TokenPool],
                                rest \in SrcLines(nl - 1, budget - m)} :
                m \in 0..budget}

RECURSIVE Join(_, _)
Join(parts, sep) ==
    IF Len(parts) = 0 THEN <<>>
    ELSE IF Len(parts) = 1 THEN parts[1]
    ELSE parts[1] \o sep \o Join(Tail(parts), sep)

\* how the file's lines end: "unix" has "\n" between the lines and nothing
\* after the last, "dos" has "\r\n" after every line, "cr" is "unix" with a
\* bare "\r" at the end of the file
LineStyles == {"unix", "dos", "cr"}

\* the file's text: tokens joined by ",", lines ended as the style says
Render(source, style) ==
    Join([i \in 1..Len(source) |->
              Join([k \in 1..Len(source[i]) |-> source[i][k].text], <<",">>)],
         IF style = "dos" THEN <<"\r", "\n">> ELSE <<"\n">>)
    \o (IF style = "dos" THEN <<"\r", "\n">>
        ELSE IF style = "cr" THEN <<"\r">> ELSE <<>>)

\* edge weights in feet; 52.8 feet are a hundredth of a mile
FnWeights == {53, 159}

FnEdgeKinds ==
    {<<i, j, w>> : i \in 0..MaxFnNode, j \in 0..MaxFnNode, w \in FnWeights}

EdgeCode(e) == (e[1] * (MaxFnNode + 1) + e[2]) * 1000 + e[3]

\* edge lists for the function calls: one list per multiset of edges
FnEdgeLists ==
    UNION {{es \in [1..k -> {e \in FnEdgeKinds : e[1] <= e[2]}] :
                \A i \in 1..(k - 1) : EdgeCode(es[i]) <= EdgeCode(es[i + 1])} :
           k \in 0..MaxEdges}

\* ------------------------------------------------------------ state
VARIABLES
    pc,         \* where the run, or the function call, stands
    source,     \* the lines and tokens the input file was written from
    input,      \* the input file's text
    result,     \* of run: "none", "Ok", "Err" or "panic"
    exit_code,  \* of the process; -1 while it runs
    stderr,     \* what main reports: "", "Problem" or "panicked"
    stages,     \* the functions run has called, in order
    edges,      \* the edges vector build_graph passes to the builder
    built,      \* the graph build_graph returned
    graph,      \* the graph
    odd,        \* eulerize's nodes_with_odd_degree
    new_edges,  \* eulerize's new_edges
    initial,    \* dijkstra's source node
    sp,         \* dijkstra's outcome
    all_edges,  \* find_cycle's edge list before the loop
    fc_edges,   \* find_cycle's working edge list
    frontier,   \* find_cycle's vertices_with_unused_edges
    path,       \* find_cycle's path
    miles       \* length_miles' outcome

vars == <<pc, source, input, result, exit_code, stderr, stages, edges, built,
          graph, odd, new_edges, initial, sp, all_edges, fc_edges, frontier,
          path, miles>>

runVars == <<source, input, result, exit_code, stderr, stages, edges, built,
             odd, new_edges>>

fnVars == <<initial, sp, all_edges, fc_edges, frontier, path, miles>>

NoSp == [panic |-> FALSE, sp_tree |-> <<>>]

NoMiles == [panic |-> FALSE, hundredths |-> 0]

InitCommon ==
    /\ result = "none" /\ exit_code = -1 /\ stderr = "" /\ stages = <<>>
    /\ edges = <<>> /\ built = NoGraph
    /\ odd = <<>> /\ new_edges = <<>>
    /\ initial = 0 /\ sp = NoSp
    /\ all_edges = <<>> /\ fc_edges = <<>> /\ frontier = <<>> /\ path = <<>>
    /\ miles = NoMiles

\* ------------------------------------------------------------ run, main
Init ==
    /\ pc = "read"
    /\ \E nl \in 0..MaxLines : source \in SrcLines(nl, MaxTokens)
    /\ \E style \in LineStyles : input = Render(source, style)
    /\ graph = NoGraph
    /\ InitCommon

\* fs::read_to_string(file_path)? succeeds
ReadFile ==
    /\ pc = "read"
    /\ pc' = "build"
    /\ stages' = Append(stages, "read_to_string")
    /\ UNCHANGED <<source, input, result, exit_code, stderr, edges, built,
                   graph, odd, new_edges>>
    /\ UNCHANGED fnVars

\* fs::read_to_string(file_path)? fails: run returns the error
ReadFileErr ==
    /\ pc = "read"
    /\ pc' = "main"
    /\ result' = "Err"
    /\ stages' = Append(stages, "read_to_string")
    /\ UNCHANGED <<source, input, exit_code, stderr, edges, built, graph, odd,
                   new_edges>>
    /\ UNCHANGED fnVars

BuildGraph ==
    /\ pc = "build"
    /\ stages' = Append(stages, "build_graph")
    /\ LET r == build_edges(input)
       IN  IF r.panic
           THEN /\ result' = "panic"
                /\ pc' = "main"
                /\ UNCHANGED <<edges, built, graph>>
           ELSE /\ \E g \in BuiltGraphs(r.edges) :
                       graph' = g /\ built' = g
                /\ edges' = r.edges
                /\ pc' = "fix"
                /\ UNCHANGED result
    /\ UNCHANGED <<source, input, exit_code, stderr, odd, new_edges>>
    /\ UNCHANGED fnVars

FixCuldesacs ==
    /\ pc = "fix"
    /\ stages' = Append(stages, "fix_culdesacs")
    /\ graph' = fix_culdesacs(graph)
    /\ pc' = "eulerize"
    /\ UNCHANGED <<source, input, result, exit_code, stderr, edges, built, odd,
                   new_edges>>
    /\ UNCHANGED fnVars

\* eulerize(&graph), built with (checks) or without overflow checks
Eulerize ==
    /\ pc = "eulerize"
    /\ stages' = Append(stages, "eulerize")
    /\ \E checks \in BOOLEAN :
           LET r == eulerize(graph, checks)
           IN  IF r.panic
               THEN /\ result' = "panic"
                    /\ pc' = "main"
                    /\ UNCHANGED <<odd, new_edges>>
               ELSE /\ odd' = r.odd
                    /\ new_edges' = r.new_edges
                    /\ pc' = "return"
                    /\ UNCHANGED result
    /\ UNCHANGED <<source, input, exit_code, stderr, edges, built, graph>>
    /\ UNCHANGED fnVars

\* Ok(()) at the end of run
RunReturn ==
    /\ pc = "return"
    /\ result' = "Ok"
    /\ pc' = "main"
    /\ UNCHANGED <<source, input, exit_code, stderr, stages, edges, built,
                   graph, odd, new_edges>>
    /\ UNCHANGED fnVars

\* main after run: Err is reported as "Problem: ..." with exit status 1; a
\* panic unwinds through main (status 101)
Main ==
    /\ pc = "main"
    /\ pc' = "exit"
    /\ exit_code' = IF result = "Ok" THEN 0
                    ELSE IF result = "Err" THEN 1 ELSE 101
    /\ stderr' = IF result = "Ok" THEN ""
                 ELSE IF result = "Err" THEN "Problem" ELSE "panicked"
    /\ UNCHANGED <<source, input, result, stages, edges, built, graph, odd,
                   new_edges>>
    /\ UNCHANGED fnVars

Next ==
    \/ ReadFile
    \/ ReadFileErr
    \/ BuildGraph
    \/ FixCuldesacs
    \/ Eulerize
    \/ RunReturn
    \/ Main

Spec == Init /\ [][Next]_vars

\* ------------------------------------------------------------ function calls
FnInit ==
    /\ pc = "fn"
    /\ source = <<>> /\ input = <<>>
    /\ \E es \in FnEdgeLists : graph \in BuiltGraphs(es)
    /\ InitCommon

CallDijkstra ==
    /\ pc = "fn"
    /\ \E s \in 0..(node_count(graph) - 1), checks \in BOOLEAN :
           /\ initial' = s
           /\ sp' = dijkstra(graph, s, checks)
    /\ pc' = "dijkstra_done"
    /\ UNCHANGED <<graph, all_edges, fc_edges, frontier, path, miles>>
    /\ UNCHANGED runVars

\* find_cycle, lines 202-212
FindCycleStart ==
    /\ pc = "fn"
    /\ all_edges' = cycle_edges(graph)
    /\ fc_edges' = cycle_edges(graph)
    /\ frontier' = <<0>>
    /\ path' = <<>>
    /\ pc' = "hierholzer"
    /\ UNCHANGED <<graph, initial, sp, miles>>
    /\ UNCHANGED runVars

\* one iteration of the loop, lines 219-220
HierholzerPop ==
    /\ pc = "hierholzer"
    /\ Len(frontier) > 0
    /\ ~\E i \in 1..Len(fc_edges) : Touches(fc_edges[i], frontier[1])
    /\ path' = Append(path, frontier[1])
    /\ frontier' = Tail(frontier)
    /\ UNCHANGED <<pc, graph, initial, sp, all_edges, fc_edges, miles>>
    /\ UNCHANGED runVars

\* one iteration of the loop, lines 221-233
HierholzerTake ==
    /\ pc = "hierholzer"
    /\ Len(frontier) > 0
    /\ \E i \in 1..Len(fc_edges) : Touches(fc_edges[i], frontier[1])
    /\ LET v1 == frontier[1]
           rm_idx == FirstAt(fc_edges, v1)
           chosen_edge == fc_edges[rm_idx]
       IN  /\ fc_edges' = swap_remove(fc_edges, rm_idx)
           /\ frontier' = <<IF chosen_edge[1] = v1 THEN chosen_edge[2]
                            ELSE chosen_edge[1]>> \o frontier
    /\ UNCHANGED <<pc, graph, initial, sp, all_edges, path, miles>>
    /\ UNCHANGED runVars

FindCycleReturn ==
    /\ pc = "hierholzer"
    /\ Len(frontier) = 0
    /\ pc' = "cycle_done"
    /\ UNCHANGED <<graph, initial, sp, all_edges, fc_edges, frontier, path,
                   miles>>
    /\ UNCHANGED runVars

\* length_miles(&path, &graph) on the path find_cycle returned
CallLengthMiles ==
    /\ pc = "cycle_done"
    /\ miles' = length_miles(path, graph)
    /\ pc' = "miles_done"
    /\ UNCHANGED <<graph, initial, sp, all_edges, fc_edges, frontier, path>>
    /\ UNCHANGED runVars

FnNext ==
    \/ CallDijkstra
    \/ FindCycleStart
    \/ HierholzerPop
    \/ HierholzerTake
    \/ FindCycleReturn
    \/ CallLengthMiles

FnSpec == FnInit /\ [][FnNext]_vars

\* ------------------------------------------------------------ graph theory
\* What the claims speak of, stated on the graph itself and not by the code.
Nodes(g) == 0..(g.n - 1)

Count(s, x) == Cardinality({i \in 1..Len(s) : s[i] = x})

CountTarget(s, v) == Cardinality({i \in 1..Len(s) : s[i].target = v})

AllEven(g) == \A v \in Nodes(g) : Len(g.adj[v + 1]) % 2 = 0

HasEdge(g) == \E v \in Nodes(g) : Len(g.adj[v + 1]) > 0

Adjacent(g, u, v) == CountTarget(g.adj[u + 1], v) > 0

RECURSIVE ReachFrom(_, _)
ReachFrom(g, S) ==
    LET T == S \cup {v \in Nodes(g) : \E u \in S : Adjacent(g, u, v)}
    IN  IF T = S THEN S ELSE ReachFrom(g, T)

Component(g, v) == ReachFrom(g, {v})

Connected(g) == Component(g, 0) = Nodes(g)

\* the number of edges joining u and v (a loop lies twice on its node's list)
Multiplicity(g, u, v) ==
    IF u = v THEN CountTarget(g.adj[u + 1], u) \div 2
    ELSE CountTarget(g.adj[u + 1], v)

EdgeTotal(g) ==
    LET RECURSIVE Sum(_)
        Sum(v) == IF v >= g.n THEN 0 ELSE Len(g.adj[v + 1]) + Sum(v + 1)
    IN  Sum(0) \div 2

WeightTotal(g) ==
    LET RECURSIVE SumSeq(_)
        SumSeq(s) == IF Len(s) = 0 THEN 0 ELSE s[1].value + SumSeq(Tail(s))
        RECURSIVE Sum(_)
        Sum(v) == IF v >= g.n THEN 0 ELSE SumSeq(g.adj[v + 1]) + Sum(v + 1)
    IN  Sum(0) \div 2

SetMin(S) == CHOOSE x \in S : \A y \in S : x <= y

\* least total weight of a walk from s to each node; USIZE_MAX where none is
RECURSIVE LeastWeights(_, _, _)
LeastWeights(g, m, k) ==
    IF k = 0 THEN m
    ELSE LeastWeights(g,
             [v \in Nodes(g) |->
                 LET c == (IF m[v] /= USIZE_MAX THEN {m[v]} ELSE {})
                          \cup UNION {{m[u] + g.adj[u + 1][i].value :
                                          i \in {i \in 1..Len(g.adj[u + 1]) :
                                                   g.adj[u + 1][i].target = v}} :
                                      u \in {u \in Nodes(g) : m[u] /= USIZE_MAX}}
                 IN  IF c = {} THEN USIZE_MAX ELSE SetMin(c)],
             k - 1)

ShortestDistance(g, s) ==
    LeastWeights(g, [v \in Nodes(g) |-> IF v = s THEN 0 ELSE USIZE_MAX], g.n)

\* the edges the tokens of the source stand for, in reading order
RECURSIVE TokenEdges(_, _)
TokenEdges(toks, i) ==
    IF Len(toks) = 0 THEN <<>>
    ELSE (IF toks[1].kind = "edge" THEN <<<<i, toks[1].j, toks[1].w>>>>
          ELSE <<>>) \o TokenEdges(Tail(toks), i)

RECURSIVE SourceEdges(_, _)
SourceEdges(src, i) ==
    IF Len(src) = 0 THEN <<>>
    ELSE TokenEdges(src[1], i) \o SourceEdges(Tail(src), i + 1)

HasToken(src, kind) ==
    \E i \in 1..Len(src) : \E k \in 1..Len(src[i]) : src[i][k].kind = kind

\* the text ends with a "\r" that no "\n" follows: it stays on the last token
\* of the last line
BareCarriageReturn(text) == Len(text) > 0 /\ text[Len(text)] = "\r"

\* every token of the text that holds a ":" has integer fields
IntegerFields(src, text) ==
    /\ ~HasToken(src, "bad")
    /\ ~(/\ BareCarriageReturn(text)
         /\ Len(src) > 0
         /\ Len(src[Len(src)]) > 0
         /\ src[Len(src)][Len(src[Len(src)])].kind = "edge")

Called(f) == \E i \in 1..Len(stages) : stages[i] = f

Transitions(p, u, v) ==
    Cardinality({i \in 1..(Len(p) - 1) : {p[i], p[i + 1]} = {u, v}})

\* how many edges of list es join u and t with weight w, counted as entries
\* of u's adjacency list (a loop counts twice)
EntryCount(es, u, t, w) ==
    Cardinality({i \in 1..Len(es) : es[i] = <<u, t, w>>})
    + Cardinality({i \in 1..Len(es) : es[i] = <<t, u, w>>})

\* ------------------------------------------------------------ claims
\* C1: for every connected graph with at least one edge, every node of the
\* graph has even degree once eulerize has returned.
C1_EulerizeLeavesEvenDegrees ==
    (pc = "return" /\ Connected(graph) /\ HasEdge(graph)) => AllEven(graph)

\* C2: on a connected graph whose degrees are all even, find_cycle returns a
\* walk from node 0 back to node 0 whose consecutive entries are adjacent, that
\* crosses every edge occurrence exactly once and so has (edges + 1) entries.
C2_FindCycleIsEulerCircuit ==
    (pc = "cycle_done" /\ Connected(graph) /\ AllEven(graph)) =>
        /\ Len(path) = EdgeTotal(graph) + 1
        /\ path[1] = 0
        /\ path[Len(path)] = 0
        /\ \A i \in 1..(Len(path) - 1) : Adjacent(graph, path[i], path[i + 1])
        /\ \A u \in Nodes(graph) : \A v \in Nodes(graph) :
               Transitions(path, u, v) = Multiplicity(graph, u, v)

\* C3: after fix_culdesacs, every node that had degree 1 before the call has
\* degree 2: its list holds its one edge twice, same endpoint, same weight.
C3_DeadEndsGetDegreeTwo ==
    pc = "eulerize" =>
        \A v \in Nodes(built) :
            degree(built, v) = 1 =>
                graph.adj[v + 1] = <<built.adj[v + 1][1], built.adj[v + 1][1]>>

\* C4: dijkstra returns one entry per node, with distance 0 for the source,
\* the least total weight of a path for every node reachable from the source,
\* and usize::MAX for every node that is not reachable.
C4_DijkstraDistances ==
    pc = "dijkstra_done" =>
        /\ ~sp.panic
        /\ Len(sp.sp_tree) = node_count(graph)
        /\ \A v \in Nodes(graph) :
               \E i \in 1..Len(sp.sp_tree) :
                   /\ sp.sp_tree[i].idx = v
                   /\ sp.sp_tree[i].distance_from_u =
                          ShortestDistance(graph, initial)[v]

\* C5: a run whose file is read and parsed calls build_graph, fix_culdesacs,
\* eulerize, find_cycle and the path formatting, in this order, once each.
C5_RunCallsEveryStage ==
    (pc = "exit" /\ result = "Ok") =>
        stages = <<"read_to_string", "build_graph", "fix_culdesacs",
                   "eulerize", "find_cycle", "alphabetize", "length_miles">>

\* C6: for the circuit find_cycle returns on a connected graph with even
\* degrees, length_miles is the sum of the weights of all edge occurrences of
\* the graph, divided by 5280 and truncated to two decimals.
C6_LengthMilesOfCircuit ==
    (pc = "miles_done" /\ Connected(graph) /\ AllEven(graph)) =>
        /\ ~miles.panic
        /\ miles.hundredths = (WeightTotal(graph) * 100) \div 5280

\* C7: when every token with a ":" has integer fields, build_graph makes one
\* edge (i, j, w) per token "j:w" of line i, in reading order, none for a token
\* without ":", and one per repetition of a token; the graph holds exactly
\* these edges.
C7_BuildGraphOneEdgePerToken ==
    (Called("build_graph") /\ IntegerFields(source, input)) =>
        /\ built /= NoGraph
        /\ edges = SourceEdges(source, 0)
        /\ \A i \in 1..Len(edges) :
               /\ edges[i][1] \in Nodes(built)
               /\ edges[i][2] \in Nodes(built)
               /\ Count(built.adj[edges[i][1] + 1],
                        [target |-> edges[i][2], value |-> edges[i][3]])
                      = EntryCount(SourceEdges(source, 0),
                                   edges[i][1], edges[i][2], edges[i][3])
        /\ \A u \in Nodes(built) : \A k \in 1..Len(built.adj[u + 1]) :
               Count(built.adj[u + 1], built.adj[u + 1][k])
                   = EntryCount(SourceEdges(source, 0), u,
                                built.adj[u + 1][k].target,
                                built.adj[u + 1][k].value)

\* C7's case: a token on the second line of a file with "\r\n" line endings,
\* with a weight of two digits, that is repeated and has made two parallel
\* edges.
C7_Witness ==
    /\ pc = "fix"
    /\ Len(source) = 2
    /\ IntegerFields(source, input)
    /\ \E i \in 1..Len(input) : input[i] = "\r"
    /\ edges = <<<<1, 1, 10>>, <<1, 1, 10>>>>
    /\ Len(built.adj[2]) = 4

\* C8: a token whose neighbor index or weight is no integer makes run return
\* an error, which main reports as "Problem: ..." with a non-zero exit status;
\* no graph is built and neither fix_culdesacs nor eulerize is called.
C8_FormatErrorIsReturned ==
    (pc = "exit" /\ Called("build_graph") /\ ~IntegerFields(source, input)) =>
        /\ result = "Err"
        /\ stderr = "Problem"
        /\ exit_code /= 0
        /\ built = NoGraph
        /\ ~Called("fix_culdesacs")
        /\ ~Called("eulerize")

\* C9: on every graph the loop of find_cycle can always take its next step,
\* and each iteration either removes one edge from the working edge list
\* (pushing one node on the frontier) or pops one node from the frontier onto
\* the path, so the loop ends; when the frontier is empty the edges left in the
\* working list are exactly those outside the component of node 0, and the
\* path has (consumed edges + 1) entries.
C9_FindCycleTerminates ==
    /\ [](pc = "hierholzer" =>
             ENABLED (HierholzerPop \/ HierholzerTake \/ FindCycleReturn))
    /\ [][(pc = "hierholzer" /\ pc' = "hierholzer") =>
             \/ /\ Len(fc_edges') = Len(fc_edges) - 1
                /\ Len(frontier') = Len(frontier) + 1
                /\ path' = path
             \/ /\ fc_edges' = fc_edges
                /\ Len(frontier') = Len(frontier) - 1
                /\ Len(path') = Len(path) + 1]_vars
    /\ [](pc = "cycle_done" =>
             /\ Len(frontier) = 0
             /\ \A i \in 1..Len(all_edges) :
                    Count(fc_edges, all_edges[i]) =
                        IF all_edges[i][1] \in Component(graph, 0) THEN 0
                        ELSE Count(all_edges, all_edges[i])
             /\ \A i \in 1..Len(fc_edges) : Count(all_edges, fc_edges[i]) > 0
             /\ Len(path) = (Len(all_edges) - Len(fc_edges)) + 1)

\* C9's case: a graph with odd degrees and edges outside the component of
\* node 0, on which the loop has consumed some edges and left others.
C9_Witness ==
    /\ pc = "cycle_done"
    /\ ~AllEven(graph)
    /\ ~Connected(graph)
    /\ Len(fc_edges) > 0
    /\ Len(path) >= 2

\* C10: when some node has odd degree, new_edges holds, for every unordered
\* pair of distinct odd-degree nodes, exactly one edge between the two nodes'
\* positions in the odd-degree list, weighted with their shortest-path
\* distance in the graph, and nothing else.
C10_MatchingGraphIsComplete ==
    (pc = "return" /\ Len(odd) > 0) =>
        /\ \A i \in 1..Len(new_edges) :
               /\ new_edges[i][1] \in 0..(Len(odd) - 1)
               /\ new_edges[i][2] \in 0..(Len(odd) - 1)
               /\ new_edges[i][1] /= new_edges[i][2]
        /\ \A a \in 1..Len(odd) : \A b \in (a + 1)..Len(odd) :
               /\ Cardinality({i \in 1..Len(new_edges) :
                      {new_edges[i][1], new_edges[i][2]} = {a - 1, b - 1}}) = 1
               /\ \A i \in 1..Len(new_edges) :
                      {new_edges[i][1], new_edges[i][2]} = {a - 1, b - 1} =>
                          new_edges[i][3] =
                              ShortestDistance(graph, odd[a])[odd[b]]

====
